---- MODULE Spec2Model ----
(***************************************************************************)
(* The branch prediction unit of src/cpu/pred/bpred_unit.cc: the          *)
(* per-thread history of in-flight branches (predHist) and the four       *)
(* operations that drive it: predict, update (commit), squash (flush) and *)
(* squash (mispredict).  The direction predictor (A, the virtual methods  *)
(* of BPredUnit), the BTB (B), the indirect predictor (C) and the return  *)
(* address stack (D) live outside this file; they are modelled here from  *)
(* their contracts: every history pointer is a token of an arena, a       *)
(* release of a token that is not live is recorded as misuse.             *)
(***************************************************************************)
EXTENDS Integers, Sequences, FiniteSets, TLC

\* ------------------------------------------------------------ bounds
MaxLookups == 2      \* total number of predict calls in a run
MaxIncorrect == 2    \* total number of mispredict squashes in a run
MaxSeq == MaxLookups \* largest sequence number handed to predict

\* ------------------------------------------------------------ values
numThreads == 2
Tids == 0 .. (numThreads - 1)

Null == 0                                  \* a null history pointer
NullPC == [pc |-> 0, npc |-> 0]            \* a null PCStateBase pointer
PCState(a) == [pc |-> a, npc |-> a + 1]
BranchPCs == {PCState(1)}                  \* where the branches are
Predicted == {PCState(3), NullPC}          \* what the BTB or C answers
\* How execution resolves a branch: taken to its target, or fallen through.
Resolutions == {[taken |-> TRUE, target |-> PCState(5)],
                [taken |-> FALSE, target |-> PCState(2)]}

instAddr(p) == p.pc
advancePC(p) == [pc |-> p.npc, npc |-> p.npc + 1]
buildRetPC(cur_pc, call_pc) == advancePC(call_pc)

\* A static instruction is its four control predicates.
Inst(u, r, c, d) ==
    [isUncondCtrl |-> u, isReturn |-> r, isCall |-> c, isDirectCtrl |-> d]

Insts == {Inst(FALSE, FALSE, FALSE, TRUE),    \* conditional direct branch
          Inst(TRUE, FALSE, FALSE, TRUE),     \* direct jump
          Inst(TRUE, FALSE, FALSE, FALSE),    \* indirect jump
          Inst(FALSE, FALSE, TRUE, TRUE),     \* conditional direct call
          Inst(FALSE, FALSE, TRUE, FALSE),    \* conditional indirect call
          Inst(TRUE, FALSE, TRUE, TRUE),      \* direct call
          Inst(FALSE, TRUE, FALSE, FALSE),    \* conditional return
          Inst(TRUE, TRUE, FALSE, FALSE),     \* return
          Inst(FALSE, TRUE, TRUE, FALSE),     \* conditional return that is also a call
          Inst(TRUE, TRUE, TRUE, FALSE)}      \* return that is also a call

\* One call made to a sub-predictor, as the log of an operation keeps it.
Call(f, tid, h, flag, taken, addr) ==
    [f |-> f, tid |-> tid, h |-> h, flag |-> flag, taken |-> taken, addr |-> addr]

\* ------------------------------------------------------------ token arenas
NewTok(live) ==
    CHOOSE n \in 1 .. (Cardinality(DOMAIN live) + 1) :
        /\ n \notin DOMAIN live
        /\ \A m \in 1 .. (n - 1) : m \in DOMAIN live

Release(live, h) == [t \in (DOMAIN live) \ {h} |-> live[t]]

Bind(live, h, v) == [t \in (DOMAIN live) \cup {h} |-> IF t = h THEN v ELSE live[t]]

Pop(stk) == IF stk = <<>> THEN stk ELSE SubSeq(stk, 1, Len(stk) - 1)
Top(stk) == IF stk = <<>> THEN NullPC ELSE stk[Len(stk)]

\* ------------------------------------------------------------ A: direction
\* a = [live, misuse]: the histories A has handed out and not yet released.
\* What a history holds is A's own business; the unit only moves the pointer.
A_lookup(a, tid, taken) ==
    LET h == NewTok(a.live)
    IN [st |-> [a EXCEPT !.live = Bind(a.live, h, tid)], h |-> h]

A_uncondBranch(a, tid) == A_lookup(a, tid, TRUE)

A_btbUpdate(a, tid, h) ==
    IF h \in DOMAIN a.live /\ a.live[h] = tid THEN a ELSE [a EXCEPT !.misuse = TRUE]

A_squash(a, tid, h) ==
    IF h \in DOMAIN a.live /\ a.live[h] = tid
    THEN [a EXCEPT !.live = Release(a.live, h)]
    ELSE [a EXCEPT !.misuse = TRUE]

A_update(a, tid, taken, h, squashed) ==
    IF h \notin DOMAIN a.live \/ a.live[h] # tid
    THEN [a EXCEPT !.misuse = TRUE]
    ELSE IF squashed THEN a
         ELSE [a EXCEPT !.live = Release(a.live, h)]

\* ------------------------------------------------------------ C: indirect
\* c = [present, live, misuse]; lookup and update make the history of a
\* branch that has none yet.
C_lookup(c, tid, h) ==
    IF h # Null
    THEN [st |-> c, h |-> h]
    ELSE LET n == NewTok(c.live)
         IN [st |-> [c EXCEPT !.live = Bind(c.live, n, tid)], h |-> n]

C_update(c, tid, h, squashed, taken) ==
    LET got == C_lookup(c, tid, h)
    IN IF got.h \notin DOMAIN got.st.live \/ got.st.live[got.h] # tid
       THEN [st |-> [c EXCEPT !.misuse = TRUE], h |-> h]
       ELSE got

C_commit(c, tid, h) ==
    IF h = Null THEN c
    ELSE IF h \in DOMAIN c.live /\ c.live[h] = tid
         THEN [c EXCEPT !.live = Release(c.live, h)]
         ELSE [c EXCEPT !.misuse = TRUE]

C_squash(c, tid, h) == C_commit(c, tid, h)

\* ------------------------------------------------------------ D: RAS
\* d = [present, stack, live, misuse]; the top of a stack is its last element.
D_history(d, h) ==
    IF h # Null
    THEN [st |-> d, h |-> h]
    ELSE LET n == NewTok(d.live)
         IN [st |-> [d EXCEPT !.live = Bind(d.live, n,
                        [pushed |-> FALSE, poped |-> FALSE, entry |-> NullPC])],
             h |-> n]

D_pop(d, tid, h) ==
    LET got == D_history(d, h)
        d1 == got.st
    IN IF got.h \notin DOMAIN d1.live
       THEN [st |-> [d EXCEPT !.misuse = TRUE], h |-> h, ret |-> NullPC]
       ELSE [st |-> [d1 EXCEPT !.stack[tid] = Pop(@),
                              !.live[got.h].poped = TRUE,
                              !.live[got.h].entry = Top(d.stack[tid])],
             h |-> got.h,
             ret |-> Top(d.stack[tid])]

D_push(d, tid, pc, h) ==
    LET got == D_history(d, h)
        d1 == got.st
    IN IF got.h \notin DOMAIN d1.live
       THEN [st |-> [d EXCEPT !.misuse = TRUE], h |-> h]
       ELSE [st |-> [d1 EXCEPT !.stack[tid] = Append(@, pc),
                              !.live[got.h].pushed = TRUE],
             h |-> got.h]

D_squash(d, tid, h) ==
    IF h = Null THEN [st |-> d, h |-> Null]
    ELSE IF h \notin DOMAIN d.live
         THEN [st |-> [d EXCEPT !.misuse = TRUE], h |-> Null]
         ELSE LET t == d.live[h]
                  s1 == IF t.pushed THEN Pop(d.stack[tid]) ELSE d.stack[tid]
                  s2 == IF t.poped /\ t.entry # NullPC THEN Append(s1, t.entry) ELSE s1
              IN [st |-> [d EXCEPT !.stack[tid] = s2, !.live = Release(d.live, h)],
                  h |-> Null]

D_commit(d, tid, h) ==
    IF h = Null THEN [st |-> d, h |-> Null]
    ELSE IF h \notin DOMAIN d.live
         THEN [st |-> [d EXCEPT !.misuse = TRUE], h |-> Null]
         ELSE [st |-> [d EXCEPT !.live = Release(d.live, h)], h |-> Null]

\* ------------------------------------------------------------ the unit
\* The operations are functions of the unit's state s =
\* [predHist, dir, iPred, ras, stats, fault, calls].

PredictorHistory(seq_num, instPC, pred_taken, bp_history, indirect_history, tid, inst) ==
    [seqNum |-> seq_num, pc |-> instPC, bpHistory |-> bp_history,
     indirectHistory |-> indirect_history, rasHistory |-> Null, tid |-> tid,
     predTaken |-> pred_taken, wasIndirect |-> FALSE, pushedRAS |-> FALSE,
     target |-> 0, inst |-> inst, mispredict |-> FALSE]

Log(s, c) == [s EXCEPT !.calls = Append(@, c)]

\* predict, lines 135-165: the direction and the tentative record.
predictDirection(s, inst, seqNum, pc, tid, dirTaken) ==
    LET pred_taken == IF inst.isUncondCtrl THEN TRUE ELSE dirTaken
        got == IF inst.isUncondCtrl THEN A_uncondBranch(s.dir, tid)
                                    ELSE A_lookup(s.dir, tid, dirTaken)
        s1 == Log([s EXCEPT !.stats.lookups = @ + 1],
                  Call("ppBranches.notify", tid, Null, FALSE, FALSE, 0))
        s2 == [s1 EXCEPT !.stats.condPredicted = IF inst.isUncondCtrl THEN @ ELSE @ + 1,
                         !.dir = got.st]
        s3 == Log(s2, Call(IF inst.isUncondCtrl THEN "A.uncondBranch" ELSE "A.lookup",
                           tid, got.h, FALSE, pred_taken, instAddr(pc)))
    IN [s |-> s3,
        rec |-> PredictorHistory(seqNum, instAddr(pc), pred_taken, got.h, Null, tid, inst),
        target |-> pc, pred_taken |-> pred_taken, bp_history |-> got.h]

\* predict, lines 171-183: a return pops the RAS.
predictReturn(f, inst, tid) ==
    IF ~inst.isReturn \/ f.s.fault # "none" THEN f
    ELSE IF ~f.s.ras.present
         THEN [f EXCEPT !.s.stats.RASUsed = @ + 1, !.s.fault = "nullderef"]
         ELSE LET got == D_pop(f.s.ras, tid, f.rec.rasHistory)
                  s1 == [f.s EXCEPT !.stats.RASUsed = @ + 1, !.ras = got.st]
              IN [f EXCEPT !.s = Log(s1, Call("D.pop", tid, got.h, FALSE, FALSE,
                                               instAddr(got.ret))),
                           !.rec.rasHistory = got.h,
                           !.target = IF got.ret # NullPC THEN got.ret ELSE @]

\* predict, lines 185-197: a call pushes its return address.
predictCall(f, inst, pc, tid) ==
    IF ~inst.isCall \/ f.s.fault # "none" THEN f
    ELSE IF ~f.s.ras.present
         THEN [f EXCEPT !.s.fault = "nullderef"]
         ELSE LET return_addr == buildRetPC(pc, pc)
                  got == D_push(f.s.ras, tid, return_addr, f.rec.rasHistory)
              IN [f EXCEPT !.s = Log([f.s EXCEPT !.ras = got.st],
                                     Call("D.push", tid, got.h, FALSE, FALSE,
                                          instAddr(return_addr))),
                           !.rec.rasHistory = got.h]

undoPush_keepsPointer(f, inst, tid, clearPushed) ==
    IF inst.isCall /\ ~inst.isUncondCtrl
    THEN LET got == D_squash(f.s.ras, tid, f.rec.rasHistory)
         IN [f EXCEPT !.s = Log([f.s EXCEPT !.ras = got.st],
                                Call("D.squash", tid, f.rec.rasHistory, FALSE, FALSE, 0)),
                      !.rec.pushedRAS = IF clearPushed THEN FALSE ELSE @]
    ELSE f

\* predict, lines 230-233 and 262-264: the push of a conditional call is
\* undone when no target is found.
undoPush(f, inst, tid, clearPushed) ==
    IF inst.isCall /\ ~inst.isUncondCtrl
    THEN LET got == D_squash(f.s.ras, tid, f.rec.rasHistory)
         IN [f EXCEPT !.s = Log([f.s EXCEPT !.ras = got.st],
                                Call("D.squash", tid, f.rec.rasHistory, FALSE, FALSE, 0)),
                      !.rec.rasHistory = got.h,
                      !.rec.pushedRAS = IF clearPushed THEN FALSE ELSE @]
    ELSE f

btbMiss_keepPush(f, inst, pc, tid) ==
    LET g == [f EXCEPT !.pred_taken = FALSE, !.rec.predTaken = FALSE]
        g1 == IF ~inst.isCall /\ ~inst.isReturn
              THEN [g EXCEPT !.s = Log([g.s EXCEPT !.dir =
                                           A_btbUpdate(g.s.dir, tid, g.bp_history)],
                                       Call("A.btbUpdate", tid, g.bp_history,
                                            FALSE, FALSE, instAddr(pc)))]
              ELSE g
    IN [g1 EXCEPT !.target = advancePC(@)]

\* predict, lines 219-234: no BTB entry, so the branch is predicted not
\* taken after all.
btbMiss(f, inst, pc, tid) ==
    LET g == [f EXCEPT !.pred_taken = FALSE, !.rec.predTaken = FALSE]
        g1 == IF ~inst.isCall /\ ~inst.isReturn
              THEN [g EXCEPT !.s = Log([g.s EXCEPT !.dir =
                                           A_btbUpdate(g.s.dir, tid, g.bp_history)],
                                       Call("A.btbUpdate", tid, g.bp_history,
                                            FALSE, FALSE, instAddr(pc)))]
              ELSE undoPush(g, inst, tid, TRUE)
    IN [g1 EXCEPT !.target = advancePC(@)]

\* predict, lines 203-235: the BTB gives the target of a direct branch.
predictBTB(f, inst, pc, tid, btb_target) ==
    LET s1 == Log([f.s EXCEPT !.stats.BTBLookups = @ + 1],
                  Call("B.lookup", tid, Null, FALSE, btb_target # NullPC, instAddr(pc)))
    IN IF btb_target # NullPC
       THEN [f EXCEPT !.s = [s1 EXCEPT !.stats.BTBHits = @ + 1],
                      !.target = btb_target]
       ELSE btbMiss([f EXCEPT !.s = s1], inst, pc, tid)

\* predict, lines 237-266: the indirect predictor gives the target.
predictIndirect(f, inst, seqNum, pc, tid, itarget) ==
    LET got == C_lookup(f.s.iPred, tid, f.rec.indirectHistory)
        s1 == Log([f.s EXCEPT !.stats.indirectLookups = @ + 1, !.iPred = got.st],
                  Call("C.lookup", tid, got.h, FALSE, itarget # NullPC, instAddr(pc)))
        f1 == [f EXCEPT !.s = s1, !.rec.wasIndirect = TRUE, !.rec.indirectHistory = got.h]
    IN IF itarget # NullPC
       THEN [f1 EXCEPT !.s.stats.indirectHits = @ + 1, !.target = itarget]
       ELSE LET g == [f1 EXCEPT !.s.stats.indirectMisses = @ + 1,
                                !.pred_taken = FALSE, !.rec.predTaken = FALSE]
                g1 == IF ~inst.isCall /\ ~inst.isReturn THEN g
                      ELSE undoPush(g, inst, tid, FALSE)
            IN [g1 EXCEPT !.target = advancePC(@)]

predictTarget_returnsToo(f, inst, seqNum, pc, tid, btb_target, itarget) ==
    IF f.s.fault # "none" THEN f
    ELSE IF inst.isDirectCtrl \/ ~f.s.iPred.present
         THEN predictBTB(f, inst, pc, tid, btb_target)
         ELSE predictIndirect(f, inst, seqNum, pc, tid, itarget)

\* predict, lines 201-268: no target from the RAS, so the BTB or the
\* indirect predictor is consulted.
predictTarget(f, inst, seqNum, pc, tid, btb_target, itarget) ==
    IF inst.isReturn \/ f.s.fault # "none" THEN f
    ELSE IF inst.isDirectCtrl \/ ~f.s.iPred.present
         THEN predictBTB(f, inst, pc, tid, btb_target)
         ELSE predictIndirect(f, inst, seqNum, pc, tid, itarget)

pushBack(hist, predict_record) == Append(hist, predict_record)

\* predict, line 284: the record becomes the youngest of its thread.
pushFront(hist, predict_record) == <<predict_record>> \o hist

notTaken_stay(f, inst) == f

\* predict, lines 269-271: a branch predicted not taken falls through.
notTaken(f, inst) == [f EXCEPT !.target = advancePC(@)]

\* predict, lines 272-291: the record is completed and pushed to the front.
predictFinish(f, inst, seqNum, tid) ==
    IF f.s.fault # "none" THEN [s |-> f.s, ret |-> FALSE, pc |-> NullPC]
    ELSE LET r1 == [f.rec EXCEPT !.target = instAddr(f.target)]
             got == IF f.s.iPred.present
                    THEN C_update(f.s.iPred, tid, r1.indirectHistory, FALSE, r1.predTaken)
                    ELSE [st |-> f.s.iPred, h |-> r1.indirectHistory]
             s1 == IF f.s.iPred.present
                   THEN Log([f.s EXCEPT !.iPred = got.st],
                            Call("C.update", tid, got.h, FALSE, r1.predTaken,
                                 instAddr(f.target)))
                   ELSE f.s
             r2 == [r1 EXCEPT !.indirectHistory = got.h]
         IN [s |-> [s1 EXCEPT !.predHist[tid] = pushFront(@, r2)],
             ret |-> f.pred_taken, pc |-> f.target]

\* BPredUnit::predict, lines 126-292.
predict(s, inst, seqNum, pc, tid, dirTaken, btb_target, itarget) ==
    LET f0 == predictDirection(s, inst, seqNum, pc, tid, dirTaken)
        f1 == IF f0.pred_taken
              THEN predictTarget(predictCall(predictReturn(f0, inst, tid), inst, pc, tid),
                                 inst, seqNum, pc, tid, btb_target, itarget)
              ELSE notTaken(f0, inst)
    IN predictFinish(f1, inst, seqNum, tid)

Front(h) == h[1]
Back(h) == h[Len(h)]
PopFront(h) == SubSeq(h, 2, Len(h))
PopBack(h) == SubSeq(h, 1, Len(h) - 1)

updateCond_strict(hist, done_sn) == hist # <<>> /\ Back(hist).seqNum < done_sn

\* update, lines 300-301: the oldest record is retired while it is not
\* younger than done_sn.
updateCond(hist, done_sn) == hist # <<>> /\ Back(hist).seqNum <= done_sn

\* update, lines 302-321: the body of the loop, one record retired.
commitBack(s, tid) ==
    LET r == Back(s.predHist[tid])
        s1 == Log([s EXCEPT !.dir = A_update(s.dir, tid, r.predTaken, r.bpHistory, FALSE)],
                  Call("A.update", tid, r.bpHistory, FALSE, r.predTaken, r.target))
        s2 == IF s1.iPred.present
              THEN Log([s1 EXCEPT !.iPred = C_commit(s1.iPred, tid, r.indirectHistory)],
                       Call("C.commit", tid, r.indirectHistory, FALSE, FALSE, r.seqNum))
              ELSE s1
        s3 == IF s2.ras.present
              THEN Log([s2 EXCEPT !.ras = D_commit(s2.ras, tid, r.rasHistory).st],
                       Call("D.commit", tid, r.rasHistory, r.mispredict, FALSE, 0))
              ELSE s2
    IN [s3 EXCEPT !.predHist[tid] = PopBack(@)]

\* BPredUnit::update(done_sn, tid), lines 294-323.
RECURSIVE update(_, _, _)
update(s, done_sn, tid) ==
    IF updateCond(s.predHist[tid], done_sn)
    THEN update(commitBack(s, tid), done_sn, tid)
    ELSE s

squashCond_orEqual(hist, squashed_sn) == hist # <<>> /\ Front(hist).seqNum >= squashed_sn

\* squash, lines 330-331: the youngest record is rolled back while it is
\* younger than squashed_sn.
squashCond(hist, squashed_sn) == hist # <<>> /\ Front(hist).seqNum > squashed_sn

flushRAS_skip(s, tid) == s

\* squash, lines 333-341: what the record did to the RAS is undone.
flushRAS(s, tid) ==
    LET r == Front(s.predHist[tid])
    IN IF r.rasHistory # Null
       THEN IF ~s.ras.present
            THEN [s EXCEPT !.fault = "assert"]
            ELSE Log([s EXCEPT !.ras = D_squash(s.ras, tid, r.rasHistory).st],
                     Call("D.squash", tid, r.rasHistory, FALSE, FALSE, 0))
       ELSE s

flushDir_skip(s, tid) == s

\* squash, lines 343-344: A deletes the bpHistory of the record.
flushDir(s, tid) ==
    LET r == Front(s.predHist[tid])
    IN Log([s EXCEPT !.dir = A_squash(s.dir, tid, r.bpHistory)],
           Call("A.squash", tid, r.bpHistory, FALSE, FALSE, 0))

squashFront_dirFirst(s, tid) ==
    LET r == Front(s.predHist[tid])
        s1 == flushDir(s, tid)
        s2 == flushRAS(s1, tid)
        s3 == IF s2.iPred.present
              THEN Log([s2 EXCEPT !.iPred = C_squash(s2.iPred, tid, r.indirectHistory)],
                       Call("C.squash", tid, r.indirectHistory, FALSE, FALSE, r.seqNum))
              ELSE s2
    IN IF s2.fault # "none" THEN s2
       ELSE [s3 EXCEPT !.predHist[tid] = PopFront(@)]

\* squash, lines 333-355: the body of the loop, one record rolled back.
squashFront(s, tid) ==
    LET r == Front(s.predHist[tid])
        s1 == flushRAS(s, tid)
        s2 == flushDir(s1, tid)
        s3 == IF s2.iPred.present
              THEN Log([s2 EXCEPT !.iPred = C_squash(s2.iPred, tid, r.indirectHistory)],
                       Call("C.squash", tid, r.indirectHistory, FALSE, FALSE, r.seqNum))
              ELSE s2
    IN IF s1.fault # "none" THEN s1
       ELSE [s3 EXCEPT !.predHist[tid] = PopFront(@)]

\* BPredUnit::squash(squashed_sn, tid), lines 325-360.
RECURSIVE squash(_, _, _)
squash(s, squashed_sn, tid) ==
    IF s.fault = "none" /\ squashCond(s.predHist[tid], squashed_sn)
    THEN squash(squashFront(s, tid), squashed_sn, tid)
    ELSE s

repairRAS_takenOnly(s, corr_target, actually_taken, tid) ==
    LET r == Front(s.predHist[tid])
    IN IF ~s.ras.present THEN s
       ELSE IF actually_taken /\ r.rasHistory = Null
       THEN LET p == IF r.inst.isReturn
                     THEN D_pop(s.ras, tid, r.rasHistory)
                     ELSE [st |-> s.ras, h |-> r.rasHistory, ret |-> NullPC]
                s1 == IF r.inst.isReturn
                      THEN Log([s EXCEPT !.ras = p.st],
                               Call("D.pop", tid, p.h, FALSE, FALSE, instAddr(p.ret)))
                      ELSE s
                return_addr == buildRetPC(corr_target, corr_target)
                q == IF r.inst.isCall
                     THEN D_push(s1.ras, tid, return_addr, p.h)
                     ELSE [st |-> s1.ras, h |-> p.h]
                s2 == IF r.inst.isCall
                      THEN Log([s1 EXCEPT !.ras = q.st],
                               Call("D.push", tid, q.h, FALSE, FALSE, instAddr(return_addr)))
                      ELSE s1
            IN [s2 EXCEPT !.predHist[tid][1].rasHistory = q.h]
       ELSE s

\* mispredict squash, lines 440-476: the RAS is brought in line with the
\* actual direction of the boundary record.
repairRAS(s, corr_target, actually_taken, tid) ==
    LET r == Front(s.predHist[tid])
    IN IF ~s.ras.present THEN s
       ELSE IF actually_taken /\ r.rasHistory = Null
       THEN LET p == IF r.inst.isReturn
                     THEN D_pop(s.ras, tid, r.rasHistory)
                     ELSE [st |-> s.ras, h |-> r.rasHistory, ret |-> NullPC]
                s1 == IF r.inst.isReturn
                      THEN Log([s EXCEPT !.ras = p.st],
                               Call("D.pop", tid, p.h, FALSE, FALSE, instAddr(p.ret)))
                      ELSE s
                return_addr == buildRetPC(corr_target, corr_target)
                q == IF r.inst.isCall
                     THEN D_push(s1.ras, tid, return_addr, p.h)
                     ELSE [st |-> s1.ras, h |-> p.h]
                s2 == IF r.inst.isCall
                      THEN Log([s1 EXCEPT !.ras = q.st],
                               Call("D.push", tid, q.h, FALSE, FALSE, instAddr(return_addr)))
                      ELSE s1
            IN [s2 EXCEPT !.predHist[tid][1].rasHistory = q.h]
       ELSE IF ~actually_taken /\ r.rasHistory # Null
       THEN LET got == D_squash(s.ras, tid, r.rasHistory)
            IN [Log([s EXCEPT !.ras = got.st],
                    Call("D.squash", tid, r.rasHistory, FALSE, FALSE, 0))
                  EXCEPT !.predHist[tid][1].rasHistory = got.h]
       ELSE s

remember_direction(r, corr_target, actually_taken) ==
    [r EXCEPT !.predTaken = actually_taken, !.mispredict = TRUE]

\* mispredict squash, lines 422-425: the record remembers the correct
\* direction for the update at commit.
remember(r, corr_target, actually_taken) ==
    [r EXCEPT !.predTaken = actually_taken,
              !.target = instAddr(corr_target),
              !.mispredict = TRUE]

correctFront_unsquashed(s, squashed_sn, corr_target, actually_taken, tid) ==
    LET r == Front(s.predHist[tid])
        s1 == [s EXCEPT !.stats.RASIncorrect = IF r.rasHistory # Null THEN @ + 1 ELSE @,
                        !.predHist[tid][1] = remember(@, corr_target, actually_taken)]
        s2 == Log([s1 EXCEPT !.dir = A_update(s1.dir, tid, actually_taken, r.bpHistory, FALSE)],
                  Call("A.update", tid, r.bpHistory, FALSE, actually_taken,
                       instAddr(corr_target)))
        got == IF s2.iPred.present
               THEN C_update(s2.iPred, tid, r.indirectHistory, TRUE, actually_taken)
               ELSE [st |-> s2.iPred, h |-> r.indirectHistory]
    IN IF s2.iPred.present
       THEN [Log([s2 EXCEPT !.iPred = got.st],
                 Call("C.update", tid, got.h, TRUE, actually_taken, instAddr(corr_target)))
               EXCEPT !.predHist[tid][1].indirectHistory = got.h]
       ELSE s2

\* mispredict squash, lines 406-438: the boundary record takes the actual
\* direction and target; A and C restore their speculative history.
correctFront(s, squashed_sn, corr_target, actually_taken, tid) ==
    LET r == Front(s.predHist[tid])
        s1 == [s EXCEPT !.stats.RASIncorrect = IF r.rasHistory # Null THEN @ + 1 ELSE @,
                        !.predHist[tid][1] = remember(@, corr_target, actually_taken)]
        s2 == Log([s1 EXCEPT !.dir = A_update(s1.dir, tid, actually_taken, r.bpHistory, TRUE)],
                  Call("A.update", tid, r.bpHistory, TRUE, actually_taken,
                       instAddr(corr_target)))
        got == IF s2.iPred.present
               THEN C_update(s2.iPred, tid, r.indirectHistory, TRUE, actually_taken)
               ELSE [st |-> s2.iPred, h |-> r.indirectHistory]
    IN IF s2.iPred.present
       THEN [Log([s2 EXCEPT !.iPred = got.st],
                 Call("C.update", tid, got.h, TRUE, actually_taken, instAddr(corr_target)))
               EXCEPT !.predHist[tid][1].indirectHistory = got.h]
       ELSE s2

updateBTB_indirectToo(s, corr_target, actually_taken, tid) ==
    IF ~actually_taken THEN s
    ELSE Log([s EXCEPT !.stats.BTBUpdates = @ + 1],
             Call("B.update", tid, Null, FALSE, TRUE, instAddr(corr_target)))

\* mispredict squash, lines 478-491: the BTB learns the target of a taken
\* branch that the indirect predictor did not handle.
updateBTB(s, corr_target, actually_taken, tid) ==
    LET r == Front(s.predHist[tid])
    IN IF ~actually_taken THEN s
       ELSE IF r.wasIndirect
            THEN [s EXCEPT !.stats.indirectMispredicted = @ + 1]
            ELSE Log([s EXCEPT !.stats.BTBUpdates = @ + 1],
                     Call("B.update", tid, Null, FALSE, TRUE, instAddr(corr_target)))

boundaryCheck_younger(hist, squashed_sn) ==
    IF hist = <<>> THEN "return"
    ELSE IF Front(hist).seqNum > squashed_sn THEN "assert"
    ELSE "fix"

\* mispredict squash, lines 392-404: what is left after the flush decides
\* whether there is a record to fix up.
boundaryCheck(hist, squashed_sn) ==
    IF hist = <<>> THEN "return"
    ELSE IF Front(hist).seqNum # squashed_sn THEN "assert"
    ELSE "fix"

countMiss_skip(s, tid) == s

\* mispredict squash, lines 380-381: the misprediction is counted and the
\* Misses probe notified on entry.
countMiss(s, tid) ==
    Log([s EXCEPT !.stats.condIncorrect = @ + 1],
        Call("ppMisses.notify", tid, Null, FALSE, FALSE, 0))

\* BPredUnit::squash(squashed_sn, corr_target, actually_taken, tid),
\* lines 362-496.
squashMispredict(s, squashed_sn, corr_target, actually_taken, tid) ==
    LET s0 == countMiss(s, tid)
        s1 == squash(s0, squashed_sn, tid)
        todo == boundaryCheck(s1.predHist[tid], squashed_sn)
    IN IF s1.fault # "none" \/ todo = "return" THEN s1
       ELSE IF todo = "assert"
            THEN [s1 EXCEPT !.fault = "assert"]
            ELSE updateBTB(
                   repairRAS(
                     correctFront(s1, squashed_sn, corr_target, actually_taken, tid),
                     corr_target, actually_taken, tid),
                   corr_target, actually_taken, tid)

drainSanityCheck_first(s) ==
    IF s.predHist[0] # <<>> THEN [s EXCEPT !.fault = "assert"] ELSE s

\* BPredUnit::drainSanityCheck, lines 117-124.
drainSanityCheck(s) ==
    IF \E t \in Tids : s.predHist[t] # <<>> THEN [s EXCEPT !.fault = "assert"] ELSE s

\* ------------------------------------------------------------ state machine
VARIABLES predHist,   \* per thread, the in-flight records, youngest first
          dir,        \* A: the direction predictor
          iPred,      \* C: the indirect predictor (present or not)
          ras,        \* D: the return address stack (present or not)
          stats,      \* the statistics counters
          fault,      \* "none", or how the simulation died
          lastSn      \* the last sequence number fetch handed out

vars == <<predHist, dir, iPred, ras, stats, fault, lastSn>>

\* The state the operations work on; calls is the log of the calls an
\* operation makes to A, B, C and D, empty when it starts.
St == [predHist |-> predHist, dir |-> dir, iPred |-> iPred, ras |-> ras,
       stats |-> stats, fault |-> fault, calls |-> <<>>]

NoHistory == [t \in {} |-> 0]

StatNames == {"lookups", "condPredicted", "condIncorrect", "BTBLookups", "BTBUpdates",
              "BTBHits", "RASUsed", "RASIncorrect", "indirectLookups", "indirectHits",
              "indirectMisses", "indirectMispredicted"}

\* The unit is built with or without C and D (BPredUnit::BPredUnit, lines 58-68).
Configs == {<<TRUE, TRUE>>, <<TRUE, FALSE>>, <<FALSE, TRUE>>, <<FALSE, FALSE>>}

Built(hasRAS, hasIPred) ==
    [predHist |-> [t \in Tids |-> <<>>],
     dir |-> [live |-> NoHistory, misuse |-> FALSE],
     iPred |-> [present |-> hasIPred, live |-> NoHistory, misuse |-> FALSE],
     ras |-> [present |-> hasRAS, stack |-> [t \in Tids |-> <<>>],
              live |-> NoHistory, misuse |-> FALSE],
     stats |-> [n \in StatNames |-> 0],
     fault |-> "none",
     calls |-> <<>>]

Init ==
    /\ \E cfg \in Configs :
         LET s == Built(cfg[1], cfg[2])
         IN /\ predHist = s.predHist
            /\ dir = s.dir
            /\ iPred = s.iPred
            /\ ras = s.ras
            /\ stats = s.stats
            /\ fault = s.fault
    /\ lastSn = 0

\* An operation leaves the state it computed; a simulation that died of a
\* failed assertion or a null pointer leaves no state but how it died.
Install(s) ==
    LET n == IF s.fault = "none" THEN s
             ELSE [Built(ras.present, iPred.present) EXCEPT !.fault = s.fault]
    IN /\ predHist' = n.predHist
       /\ dir' = n.dir
       /\ iPred' = n.iPred
       /\ ras' = n.ras
       /\ stats' = n.stats
       /\ fault' = n.fault

\* Fetch numbers the instructions of all threads from one counter.
Predict(tid) ==
    /\ fault = "none"
    /\ lastSn < MaxSeq
    /\ stats.lookups < MaxLookups
    /\ \E inst \in Insts, pc \in BranchPCs, dirTaken \in BOOLEAN,
          btb_target \in Predicted, itarget \in Predicted :
         Install(predict(St, inst, lastSn + 1, pc, tid, dirTaken, btb_target, itarget).s)
    /\ lastSn' = lastSn + 1

Update(tid) ==
    /\ fault = "none"
    /\ \E done_sn \in 0 .. MaxSeq : Install(update(St, done_sn, tid))
    /\ UNCHANGED lastSn

Squash(tid) ==
    /\ fault = "none"
    /\ \E squashed_sn \in 0 .. MaxSeq : Install(squash(St, squashed_sn, tid))
    /\ UNCHANGED lastSn

SquashMispredict(tid) ==
    /\ fault = "none"
    /\ stats.condIncorrect < MaxIncorrect
    /\ \E squashed_sn \in 0 .. MaxSeq, res \in Resolutions :
         Install(squashMispredict(St, squashed_sn, res.target, res.taken, tid))
    /\ UNCHANGED lastSn

DrainSanityCheck ==
    /\ fault = "none"
    /\ Install(drainSanityCheck(St))
    /\ UNCHANGED lastSn

Next ==
    \/ \E tid \in Tids : Predict(tid)
    \/ \E tid \in Tids : Update(tid)
    \/ \E tid \in Tids : Squash(tid)
    \/ \E tid \in Tids : SquashMispredict(tid)
    \/ DrainSanityCheck

Spec == Init /\ [][Next]_vars

\* ------------------------------------------------------------ properties
\* The arguments a caller may hand to predict, and the calls themselves, in
\* the current state.
PredictArgs ==
    [tid : Tids, inst : Insts, pc : BranchPCs, dirTaken : BOOLEAN,
     btb_target : Predicted, itarget : Predicted]

DoPredict(a) ==
    predict(St, a.inst, lastSn + 1, a.pc, a.tid, a.dirTaken, a.btb_target, a.itarget)

\* predict can be called: fetch has a sequence number left to hand out.
CanPredict == fault = "none" /\ lastSn < MaxSeq /\ stats.lookups < MaxLookups

Records == UNION {{predHist[t][i] : i \in 1 .. Len(predHist[t])} : t \in Tids}

Count(log, f) == Cardinality({i \in 1 .. Len(log) : log[i].f = f})

RECURSIVE Reverse(_)
Reverse(q) == IF q = <<>> THEN <<>> ELSE Append(Reverse(Tail(q)), Head(q))

RECURSIVE Flatten(_)
Flatten(qq) == IF qq = <<>> THEN <<>> ELSE Head(qq) \o Flatten(Tail(qq))

NotYounger(q, sn) == SelectSeq(q, LAMBDA r : r.seqNum <= sn)
Younger(q, sn) == SelectSeq(q, LAMBDA r : r.seqNum > sn)
Older(q, sn) == SelectSeq(q, LAMBDA r : r.seqNum < sn)

\* C1: in every reachable state the sequence numbers of every thread's
\* history strictly decrease from the front to the back.
SeqNumsDecrease ==
    \A tid \in Tids : \A i, j \in 1 .. Len(predHist[tid]) :
        i < j => predHist[tid][i].seqNum > predHist[tid][j].seqNum

\* Two records in flight on one thread, the older one corrected by a
\* mispredict squash after the younger one was predicted or flushed.
TwoInFlightOneCorrected ==
    \E tid \in Tids :
        /\ Len(predHist[tid]) = 2
        /\ predHist[tid][2].mispredict

\* C2: a predict that returns pushes exactly one record to the front of its
\* thread's history and touches no other thread's; the record has the
\* sequence number and the branch address given, mispredict = false,
\* predTaken = the value returned and target = the address left in pc_inout;
\* and when predict returns false pc_inout is the incoming PC advanced past
\* the branch.
PredictPushesOneRecord ==
    CanPredict =>
    \A a \in PredictArgs : \A out \in {DoPredict(a)} :
        out.s.fault = "none" =>
          \A hist \in {out.s.predHist[a.tid]} :
             /\ hist # <<>>
             /\ hist = <<Front(hist)>> \o predHist[a.tid]
             /\ \A t \in Tids \ {a.tid} : out.s.predHist[t] = predHist[t]
             /\ Front(hist).seqNum = lastSn + 1
             /\ Front(hist).pc = instAddr(a.pc)
             /\ Front(hist).mispredict = FALSE
             /\ Front(hist).predTaken = out.ret
             /\ Front(hist).target = instAddr(out.pc)
             /\ (~out.ret => out.pc = advancePC(a.pc))

\* A predict on one thread while the other thread has a record in flight,
\* returning false for each of the three reasons.
PredictReturnsFalseThreeWays ==
    /\ CanPredict
    /\ iPred.present
    /\ ras.present
    /\ \E t \in Tids : predHist[t] # <<>>
    /\ \E a \in PredictArgs : \E out \in {DoPredict(a)} :
         ~out.ret /\ ~a.inst.isUncondCtrl /\ ~a.dirTaken
    /\ \E a \in PredictArgs : \E out \in {DoPredict(a)} :
         ~out.ret /\ Count(out.s.calls, "B.lookup") = 1
    /\ \E a \in PredictArgs : \E out \in {DoPredict(a)} :
         ~out.ret /\ Count(out.s.calls, "C.lookup") = 1

\* C3: the histories each sub-predictor has handed out and not taken back
\* are exactly the ones the records in flight hold, no two records hold the
\* same one, and no sub-predictor was ever handed a history it had already
\* taken back: every token is released exactly once, when its record leaves
\* the queue or earlier.
Held(field) == {r[field] : r \in Records} \ {Null}

TokensBalanced ==
    fault = "none" =>
      /\ ~dir.misuse /\ ~iPred.misuse /\ ~ras.misuse
      /\ DOMAIN dir.live = Held("bpHistory")
      /\ DOMAIN iPred.live = Held("indirectHistory")
      /\ DOMAIN ras.live = Held("rasHistory")
      /\ \A r1, r2 \in Records :
           r1 # r2 =>
             /\ r1.bpHistory # r2.bpHistory
             /\ r1.indirectHistory = Null \/ r1.indirectHistory # r2.indirectHistory
             /\ r1.rasHistory = Null \/ r1.rasHistory # r2.rasHistory

\* Every queue has drained after two predicts that used the RAS and a
\* mispredict squash that found RAS state to repair.
DrainedAfterRASUse ==
    /\ fault = "none"
    /\ ras.present /\ iPred.present
    /\ \A t \in Tids : predHist[t] = <<>>
    /\ stats.lookups = 2
    /\ stats.RASUsed >= 1
    /\ stats.RASIncorrect >= 1
    /\ \E t \in Tids : ras.stack[t] # <<>>

\* C4: a predict that returns, followed at once by squash(sn - 1, tid),
\* leaves the histories and A, C and D exactly as they were before the
\* predict: what predict did to D is undone by one D.squash, A's history is
\* squashed once and C's once; only the counters keep what predict added.
Unwind(out, tid) == squash([out.s EXCEPT !.calls = <<>>], lastSn, tid)

PredictThenSquashUnwinds ==
    CanPredict =>
    \A a \in PredictArgs : \A out \in {DoPredict(a)} :
        out.s.fault = "none" =>
          \A s2 \in {Unwind(out, a.tid)} :
             /\ s2.fault = "none"
             /\ s2.predHist = predHist
             /\ s2.dir = dir
             /\ s2.iPred = iPred
             /\ s2.ras = ras
             /\ s2.stats = out.s.stats
             /\ Count(s2.calls, "A.squash") = 1
             /\ Count(s2.calls, "C.squash") = IF iPred.present THEN 1 ELSE 0
             /\ Count(out.s.calls, "D.squash") + Count(s2.calls, "D.squash")
                  = IF Count(out.s.calls, "D.pop") + Count(out.s.calls, "D.push") > 0
                    THEN 1 ELSE 0

\* A return that is also a call is predicted on a thread that has a record
\* in flight and a return address on its stack: predict pops and pushes, and
\* the squash puts the popped address back.
UnwindsPopAndPush ==
    /\ CanPredict
    /\ \E a \in PredictArgs : \E out \in {DoPredict(a)} :
         /\ out.s.fault = "none"
         /\ predHist[a.tid] # <<>>
         /\ ras.stack[a.tid] # <<>>
         /\ Count(out.s.calls, "D.pop") = 1
         /\ Count(out.s.calls, "D.push") = 1
         /\ out.s.ras.stack[a.tid] # ras.stack[a.tid]
         /\ Unwind(out, a.tid).ras.stack[a.tid] = ras.stack[a.tid]

\* C5: update(done_sn, tid) removes exactly the records that are not younger
\* than done_sn and leaves the others, and every other thread, as they were;
\* it retires the oldest first and makes for each record one A.update with
\* squashed = false, then one C.commit if C is present, then one D.commit if
\* D is present, and no other call; with done_sn the last sequence number
\* handed out the thread's history is empty afterwards.
CommitCalls(r, tid) ==
    <<Call("A.update", tid, r.bpHistory, FALSE, r.predTaken, r.target)>>
    \o (IF iPred.present
        THEN <<Call("C.commit", tid, r.indirectHistory, FALSE, FALSE, r.seqNum)>>
        ELSE <<>>)
    \o (IF ras.present
        THEN <<Call("D.commit", tid, r.rasHistory, r.mispredict, FALSE, 0)>>
        ELSE <<>>)

UpdateRetiresOldestFirst ==
    fault = "none" =>
    \A tid \in Tids, done_sn \in 0 .. MaxSeq : \A s \in {update(St, done_sn, tid)} :
        LET gone == Reverse(NotYounger(predHist[tid], done_sn))
        IN /\ s.fault = "none"
           /\ s.predHist[tid] = Younger(predHist[tid], done_sn)
           /\ \A t \in Tids \ {tid} : s.predHist[t] = predHist[t]
           /\ \A i \in 1 .. (Len(gone) - 1) : gone[i].seqNum < gone[i + 1].seqNum
           /\ s.calls = Flatten([i \in 1 .. Len(gone) |-> CommitCalls(gone[i], tid)])
           /\ (done_sn >= lastSn => s.predHist[tid] = <<>>)

\* With C and D present an update retires the older of two records of a
\* thread, one of them corrected, and leaves the younger.
UpdateRetiresOneOfTwo ==
    /\ fault = "none"
    /\ iPred.present /\ ras.present
    /\ \E tid \in Tids :
         /\ Len(predHist[tid]) = 2
         /\ predHist[tid][2].mispredict
         /\ predHist[tid][2].rasHistory # Null
         /\ Len(update(St, predHist[tid][2].seqNum, tid).predHist[tid]) = 1
         /\ Len(update(St, lastSn, tid).calls) = 6

\* C6: predict B, mispredict squash of B with (corr_target, actually_taken),
\* update past B leaves A, C and D as the run does in which B is predicted
\* with direction actually_taken and target corr_target and then committed;
\* in particular a call B leaves the same return address on the RAS.
MispredictedRun(a, res) ==
    update(squashMispredict([DoPredict(a).s EXCEPT !.calls = <<>>],
                            lastSn + 1, res.target, res.taken, a.tid),
           lastSn + 1, a.tid)

CorrectRun(a, res) ==
    update(predict(St, a.inst, lastSn + 1, a.pc, a.tid,
                   res.taken, res.target, res.target).s,
           lastSn + 1, a.tid)

MispredictThenCommitEquivalent ==
    CanPredict =>
    \A a \in PredictArgs, res \in Resolutions :
        (a.inst.isUncondCtrl => res.taken) =>
        \A r1 \in {MispredictedRun(a, res)}, r2 \in {CorrectRun(a, res)} :
            r1.fault = "none" /\ r2.fault = "none" =>
               /\ r1.dir = r2.dir
               /\ r1.iPred = r2.iPred
               /\ r1.ras = r2.ras

\* C7: the flush squash(squashed_sn, tid) removes exactly the records with
\* seqNum > squashed_sn and leaves the others, and every other thread, as
\* they were; when squashed_sn is not smaller than any seqNum of the queue it
\* changes nothing and calls no sub-predictor, and when it is smaller than
\* every seqNum the queue is empty afterwards.
FlushRemovesYounger ==
    fault = "none" =>
    \A tid \in Tids, squashed_sn \in 0 .. MaxSeq :
      \A s \in {squash(St, squashed_sn, tid)} :
        LET q == predHist[tid]
        IN /\ s.fault = "none"
           /\ s.predHist[tid] = NotYounger(q, squashed_sn)
           /\ \A t \in Tids \ {tid} : s.predHist[t] = predHist[t]
           /\ ((\A i \in 1 .. Len(q) : q[i].seqNum <= squashed_sn) => s = St)
           /\ ((\A i \in 1 .. Len(q) : q[i].seqNum > squashed_sn)
                 => s.predHist[tid] = <<>>)

\* Of two records the younger is flushed and the older, a corrected record
\* that holds a RAS history, stays as it was.
FlushKeepsCorrectedRecord ==
    /\ fault = "none"
    /\ \E tid \in Tids :
         /\ Len(predHist[tid]) = 2
         /\ predHist[tid][2].mispredict
         /\ predHist[tid][2].rasHistory # Null
         /\ \E s \in {squash(St, predHist[tid][2].seqNum, tid)} :
              /\ s.predHist[tid] = <<predHist[tid][2]>>
              /\ Len(s.calls) >= 2
         /\ squash(St, lastSn, tid) = St
         /\ squash(St, 0, tid).predHist[tid] = <<>>

\* C8: after the mispredict squash on a queue that holds a record with
\* seqNum = squashed_sn that record is the front of the queue, with
\* predTaken = actually_taken, target = corr_target.instAddr() and
\* mispredict = true; the younger records are gone, the older ones and the
\* other threads are unchanged.
HasRecord(tid, sn) == \E i \in 1 .. Len(predHist[tid]) : predHist[tid][i].seqNum = sn

MispredictRewritesBoundary ==
    fault = "none" =>
    \A tid \in Tids, squashed_sn \in 0 .. MaxSeq, res \in Resolutions :
      HasRecord(tid, squashed_sn) =>
      \A s \in {squashMispredict(St, squashed_sn, res.target, res.taken, tid)} :
        LET q == s.predHist[tid]
            was == CHOOSE r \in Records : r.tid = tid /\ r.seqNum = squashed_sn
        IN /\ s.fault = "none"
           /\ q # <<>>
           /\ Front(q).seqNum = squashed_sn
           /\ Front(q).predTaken = res.taken
           /\ Front(q).target = instAddr(res.target)
           /\ Front(q).mispredict
           /\ Front(q).pc = was.pc /\ Front(q).inst = was.inst
           /\ Tail(q) = Older(predHist[tid], squashed_sn)
           /\ \A t \in Tids \ {tid} : s.predHist[t] = predHist[t]

\* Of two records either can be the boundary: with the younger one the
\* older stays, with the older one the younger is gone; the record takes a
\* direction and a target other than the predicted ones.
MispredictOnEitherOfTwo ==
    /\ fault = "none"
    /\ \E tid \in Tids, res \in Resolutions :
         /\ Len(predHist[tid]) = 2
         /\ \A i \in 1 .. 2 : /\ predHist[tid][i].predTaken # res.taken
                              /\ predHist[tid][i].target # instAddr(res.target)
                              /\ ~predHist[tid][i].mispredict
         /\ \E s \in {squashMispredict(St, predHist[tid][1].seqNum,
                                       res.target, res.taken, tid)} :
              Len(s.predHist[tid]) = 2 /\ s.predHist[tid][1].mispredict
         /\ \E s \in {squashMispredict(St, predHist[tid][2].seqNum,
                                       res.target, res.taken, tid)} :
              Len(s.predHist[tid]) = 1 /\ s.predHist[tid][1].mispredict

\* C9: a mispredict squash reaches the failed assertion exactly when the
\* queue is not empty after the flush step and its front has another seqNum
\* than squashed_sn, and so never when squashed_sn is the seqNum of a record
\* of the queue. When the queue is empty after the flush step it returns
\* having done, beyond that flush, nothing but count condIncorrect and notify
\* the Misses probe: no record is rewritten and A.update, C.update, D.pop,
\* D.push and B.update are not called.
OnlyCounted(s, before, tid) ==
    /\ s.fault = "none"
    /\ s.predHist = before.predHist
    /\ s.dir = before.dir
    /\ s.iPred = before.iPred
    /\ s.ras = before.ras
    /\ s.stats = [before.stats EXCEPT !.condIncorrect = @ + 1]
    /\ s.calls = <<Call("ppMisses.notify", tid, Null, FALSE, FALSE, 0)>> \o before.calls

AssertedOrNot(s, fl, tid, squashed_sn) ==
    /\ s.fault = "assert" <=> /\ fl.predHist[tid] # <<>>
                              /\ Front(fl.predHist[tid]).seqNum # squashed_sn
    /\ HasRecord(tid, squashed_sn) => s.fault = "none"

MispredictWithoutRecord ==
    fault = "none" =>
    \A tid \in Tids, squashed_sn \in 0 .. MaxSeq, res \in Resolutions :
      \A s \in {squashMispredict(St, squashed_sn, res.target, res.taken, tid)},
         fl \in {squash(St, squashed_sn, tid)} :
           /\ AssertedOrNot(s, fl, tid, squashed_sn)
           /\ fl.predHist[tid] = <<>> => OnlyCounted(s, fl, tid)

\* C9 as stated: when the queue is empty after the flush step the mispredict
\* squash has changed nothing but condIncorrect and the Misses probe, and
\* has called none of A.update, C.update, D and B.update.
MispredictWithoutRecordChangesNothing ==
    fault = "none" =>
    \A tid \in Tids, squashed_sn \in 0 .. MaxSeq, res \in Resolutions :
      \A s \in {squashMispredict(St, squashed_sn, res.target, res.taken, tid)},
         fl \in {squash(St, squashed_sn, tid)} :
           /\ AssertedOrNot(s, fl, tid, squashed_sn)
           /\ fl.predHist[tid] = <<>> => OnlyCounted(s, St, tid)

\* A record that holds a RAS history is in flight and fetch has gone past
\* it: a mispredict squash for a sequence number before it flushes it and
\* returns, one for a sequence number after it fails the assertion.
MispredictBeforeAndAfterRecord ==
    /\ fault = "none"
    /\ \E tid \in Tids, res \in Resolutions :
         /\ predHist[tid] # <<>>
         /\ Front(predHist[tid]).seqNum < lastSn
         /\ Front(predHist[tid]).rasHistory # Null
         /\ \E s \in {squashMispredict(St, 0, res.target, res.taken, tid)} :
              /\ s.fault = "none"
              /\ s.predHist[tid] = <<>>
              /\ Count(s.calls, "D.squash") >= 1
         /\ squashMispredict(St, lastSn, res.target, res.taken, tid).fault = "assert"

\* C10: when predict has a taken direction for a branch that is not a
\* return, consults the BTB and the BTB misses, it returns false, the record
\* has predTaken = false and pc_inout is the next sequential PC; A.btbUpdate
\* is called exactly when the instruction is not a call, and the push made
\* earlier in the same predict is undone by D.squash exactly when the
\* instruction is a call that is not unconditional.
BTBMisses(a) ==
    /\ ~a.inst.isReturn
    /\ a.inst.isUncondCtrl \/ a.dirTaken
    /\ a.inst.isDirectCtrl \/ ~iPred.present
    /\ a.btb_target = NullPC

BTBMissFallsThrough ==
    CanPredict =>
    \A a \in PredictArgs : BTBMisses(a) =>
      \A out \in {DoPredict(a)} :
        out.s.fault = "none" =>
          LET undone == a.inst.isCall /\ ~a.inst.isUncondCtrl
          IN /\ Count(out.s.calls, "B.lookup") = 1
             /\ ~out.ret
             /\ ~Front(out.s.predHist[a.tid]).predTaken
             /\ out.pc = advancePC(a.pc)
             /\ Count(out.s.calls, "A.btbUpdate") = IF a.inst.isCall THEN 0 ELSE 1
             /\ Count(out.s.calls, "D.squash") = IF undone THEN 1 ELSE 0
             /\ Count(out.s.calls, "D.push") = IF a.inst.isCall THEN 1 ELSE 0
             /\ undone => \E i, j \in 1 .. Len(out.s.calls) :
                             /\ i < j
                             /\ out.s.calls[i].f = "D.push"
                             /\ out.s.calls[j].f = "D.squash"
                             /\ out.s.calls[j].h = out.s.calls[i].h

\* With a record in flight the BTB misses for a conditional call, whose push
\* is undone, for an unconditional call, whose push stays, and for a branch
\* that is not a call, for which A.btbUpdate is called.
BTBMissesThreeKinds ==
    /\ CanPredict
    /\ ras.present
    /\ \E t \in Tids : predHist[t] # <<>>
    /\ \E a \in PredictArgs : \E out \in {DoPredict(a)} :
         /\ BTBMisses(a) /\ a.inst.isCall /\ ~a.inst.isUncondCtrl
         /\ Count(out.s.calls, "D.push") = 1 /\ Count(out.s.calls, "D.squash") = 1
    /\ \E a \in PredictArgs : \E out \in {DoPredict(a)} :
         /\ BTBMisses(a) /\ a.inst.isCall /\ a.inst.isUncondCtrl
         /\ Count(out.s.calls, "D.push") = 1 /\ Count(out.s.calls, "D.squash") = 0
    /\ \E a \in PredictArgs : \E out \in {DoPredict(a)} :
         /\ BTBMisses(a) /\ ~a.inst.isCall
         /\ Count(out.s.calls, "A.btbUpdate") = 1 /\ ~out.ret

\* C11: a predict of a return that is predicted taken while the RAS of its
\* thread is empty returns true without a fatal error and leaves pc_inout,
\* and the record's target, at the PC advanced past the return.
EmptyRASPop(a) ==
    /\ ras.present
    /\ a.inst.isReturn
    /\ a.inst.isUncondCtrl \/ a.dirTaken
    /\ ras.stack[a.tid] = <<>>

EmptyRASPopFallsThrough ==
    CanPredict =>
    \A a \in PredictArgs : EmptyRASPop(a) =>
      \A out \in {DoPredict(a)} :
         /\ out.s.fault = "none"
         /\ out.ret
         /\ out.pc = advancePC(a.pc)
         /\ Front(out.s.predHist[a.tid]).target = instAddr(advancePC(a.pc))

\* C12: no operation decreases a statistics counter; BTBHits <= BTBLookups
\* and indirectHits + indirectMisses = indirectLookups in every state;
\* lookups is the number of predict calls and condIncorrect the number of
\* mispredict squash calls: each predict adds one to lookups and notifies
\* the Branches probe once, each mispredict squash adds one to condIncorrect
\* and notifies the Misses probe once, with or without a boundary record,
\* and no other operation touches the two counters or the probes.
Grows(after) == \A n \in StatNames : after[n] >= stats[n]

Probes(s, branches, misses) ==
    /\ Count(s.calls, "ppBranches.notify") = branches
    /\ Count(s.calls, "ppMisses.notify") = misses

StatsCount ==
    fault = "none" =>
      /\ stats.BTBHits <= stats.BTBLookups
      /\ stats.indirectHits + stats.indirectMisses = stats.indirectLookups
      /\ stats.lookups = lastSn
      /\ \A tid \in Tids, sn \in 0 .. MaxSeq :
           \A s \in {update(St, sn, tid), squash(St, sn, tid)} :
              s.stats = stats /\ Probes(s, 0, 0)
      /\ \A tid \in Tids, sn \in 0 .. MaxSeq, res \in Resolutions :
           \A s \in {squashMispredict(St, sn, res.target, res.taken, tid)} :
              /\ Grows(s.stats)
              /\ s.stats.condIncorrect = stats.condIncorrect + 1
              /\ s.stats.lookups = stats.lookups
              /\ Probes(s, 0, 1)
      /\ CanPredict =>
           \A a \in PredictArgs : \A out \in {DoPredict(a)} :
              /\ Grows(out.s.stats)
              /\ out.s.stats.lookups = stats.lookups + 1
              /\ out.s.stats.condIncorrect = stats.condIncorrect
              /\ Probes(out.s, 1, 0)

\* After a BTB hit, an indirect miss and a mispredict squash the queues are
\* empty, and a mispredict squash that finds no record is counted as well.
CountedWithoutRecord ==
    /\ fault = "none"
    /\ \A t \in Tids : predHist[t] = <<>>
    /\ stats.lookups = 2 /\ stats.BTBHits = 1 /\ stats.indirectMisses = 1
    /\ stats.condIncorrect = 1
    /\ \E tid \in Tids, res \in Resolutions :
         \E s \in {squashMispredict(St, lastSn, res.target, res.taken, tid)} :
            s.fault = "none" /\ s.stats.condIncorrect = 2 /\ s.predHist = predHist

\* C13: on a unit built without D every predict, update, flush squash and
\* mispredict squash completes without a call to D, also the predict of a
\* call or return that is predicted taken, and every record has a null
\* rasHistory; on a unit built without C no operation calls C and every
\* record has a null indirectHistory.
DNames == {"D.pop", "D.push", "D.squash", "D.commit"}
CNames == {"C.lookup", "C.update", "C.squash", "C.commit"}

Invokes(s, names) == \E i \in 1 .. Len(s.calls) : s.calls[i].f \in names

\* What each operation that can be called in the current state leaves.
Outcomes ==
    {update(St, sn, tid) : sn \in 0 .. MaxSeq, tid \in Tids}
    \cup {squash(St, sn, tid) : sn \in 0 .. MaxSeq, tid \in Tids}
    \cup {squashMispredict(St, sn, res.target, res.taken, tid) :
            sn \in 0 .. MaxSeq, res \in Resolutions, tid \in Tids}
    \cup (IF CanPredict THEN {DoPredict(a).s : a \in PredictArgs} ELSE {})

AbsentPredictorsNeverInvoked ==
    fault = "none" =>
      /\ ~ras.present =>
           /\ \A r \in Records : r.rasHistory = Null
           /\ \A s \in Outcomes :
                 s.fault # "nullderef" /\ ~Invokes(s, DNames)
      /\ ~iPred.present =>
           /\ \A r \in Records : r.indirectHistory = Null
           /\ \A s \in Outcomes : ~Invokes(s, CNames)

\* C14: drainSanityCheck fails its assertion exactly when the history of
\* some thread is not empty, and changes nothing. Once every thread has
\* seen an update with done_sn not below, or a flush with squashed_sn below,
\* every sequence number predicted, all histories are empty and
\* drainSanityCheck passes. A record leaves its history only by these two:
\* update(done_sn) removes the records with seqNum <= done_sn and no other,
\* the flush, alone or as the first step of a mispredict squash, removes
\* those with seqNum > squashed_sn and no other, predict removes none; a
\* record corrected by a mispredict squash stays in its history.
SeqNums(q) == {q[i].seqNum : i \in 1 .. Len(q)}

RECURSIVE Cover(_, _, _)
Cover(s, tids, how) ==
    IF tids = {} THEN s
    ELSE LET t == CHOOSE t \in tids : TRUE
         IN Cover(IF how[t] = "update" THEN update(s, lastSn, t) ELSE squash(s, 0, t),
                  tids \ {t}, how)

Leaves(s, tid, gone) ==
    /\ SeqNums(s.predHist[tid]) = SeqNums(predHist[tid]) \ gone
    /\ \A t \in Tids \ {tid} : s.predHist[t] = predHist[t]

DrainPassesWhenCovered ==
    fault = "none" =>
      /\ \A d \in {drainSanityCheck(St)} :
           /\ d.fault = "assert" <=> \E t \in Tids : predHist[t] # <<>>
           /\ [d EXCEPT !.fault = "none"] = St
      /\ \A how \in [Tids -> {"update", "squash"}] :
           \A s \in {Cover(St, Tids, how)} :
              /\ \A t \in Tids : s.predHist[t] = <<>>
              /\ drainSanityCheck(s).fault = "none"
      /\ \A tid \in Tids, sn \in 0 .. MaxSeq :
           /\ Leaves(update(St, sn, tid), tid, 0 .. sn)
           /\ Leaves(squash(St, sn, tid), tid, (sn + 1) .. MaxSeq)
           /\ \A res \in Resolutions :
                \A s \in {squashMispredict(St, sn, res.target, res.taken, tid)} :
                   s.fault = "none" =>
                     /\ Leaves(s, tid, (sn + 1) .. MaxSeq)
                     /\ \A r \in Records : r.tid = tid /\ r.seqNum <= sn /\ r.mispredict
                          => \E i \in 1 .. Len(s.predHist[tid]) :
                                /\ s.predHist[tid][i].seqNum = r.seqNum
                                /\ s.predHist[tid][i].mispredict
      /\ CanPredict =>
           \A a \in PredictArgs : \A out \in {DoPredict(a)} :
              out.s.fault = "none" =>
                /\ SeqNums(out.s.predHist[a.tid]) = SeqNums(predHist[a.tid]) \cup {lastSn + 1}
                /\ \A t \in Tids \ {a.tid} : out.s.predHist[t] = predHist[t]

\* Both threads have a record in flight, one of them corrected: the drain
\* check fails, and passes after one thread has committed and the other has
\* been flushed.
DrainFailsThenPasses ==
    /\ fault = "none"
    /\ \A t \in Tids : predHist[t] # <<>>
    /\ \E r \in Records : r.mispredict
    /\ drainSanityCheck(St).fault = "assert"
    /\ \E how \in [Tids -> {"update", "squash"}] :
         /\ how[0] # how[1]
         /\ drainSanityCheck(Cover(St, Tids, how)).fault = "none"

\* C15: the flush rolls the records back youngest first, and for each
\* record it removes it calls D.squash(rasHistory) if rasHistory is not
\* null, then A.squash(bpHistory), then C.squash(indirectHistory) if C is
\* present, and nothing else; so the RAS histories are squashed in the
\* reverse of the order in which predict numbered their records.
SquashCalls(r, tid) ==
    (IF r.rasHistory # Null
     THEN <<Call("D.squash", tid, r.rasHistory, FALSE, FALSE, 0)>>
     ELSE <<>>)
    \o <<Call("A.squash", tid, r.bpHistory, FALSE, FALSE, 0)>>
    \o (IF iPred.present
        THEN <<Call("C.squash", tid, r.indirectHistory, FALSE, FALSE, r.seqNum)>>
        ELSE <<>>)

FlushYoungestFirst ==
    fault = "none" =>
    \A tid \in Tids, squashed_sn \in 0 .. MaxSeq :
      \A s \in {squash(St, squashed_sn, tid)} :
        LET gone == Younger(predHist[tid], squashed_sn)
            ras_calls == SelectSeq(s.calls, LAMBDA c : c.f = "D.squash")
            ras_held == SelectSeq(gone, LAMBDA r : r.rasHistory # Null)
        IN /\ \A i \in 1 .. (Len(gone) - 1) : gone[i].seqNum > gone[i + 1].seqNum
           /\ s.calls = Flatten([i \in 1 .. Len(gone) |-> SquashCalls(gone[i], tid)])
           /\ Len(ras_calls) = Len(ras_held)
           /\ \A i \in 1 .. Len(ras_calls) : ras_calls[i].h = ras_held[i].rasHistory

\* Two records of a thread hold a RAS history each, C is present: the flush
\* of both makes six calls, the younger record's first.
FlushOfTwoRASRecords ==
    /\ fault = "none"
    /\ iPred.present
    /\ \E tid \in Tids :
         /\ Len(predHist[tid]) = 2
         /\ \A i \in 1 .. 2 : predHist[tid][i].rasHistory # Null
         /\ \E s \in {squash(St, 0, tid)} :
              /\ Len(s.calls) = 6
              /\ s.calls[1] = Call("D.squash", tid, predHist[tid][1].rasHistory,
                                   FALSE, FALSE, 0)
              /\ s.calls[4].h = predHist[tid][2].rasHistory

\* C16: when a record that a mispredict squash corrected, for the first time
\* or again, is retired by update, the A.update of its commit carries
\* squashed = false with the direction and the target of that last
\* correction, and D.commit carries mispredict = true; a record that was
\* never corrected is committed with the direction and target predict gave
\* it and mispredict = false. No operation but the mispredict squash of a
\* record changes its predTaken, target or mispredict, and the mispredict
\* squash calls A.update once at most, with squashed = true.
LastCall(log, f) ==
    log[CHOOSE i \in 1 .. Len(log) :
          log[i].f = f /\ \A j \in (i + 1) .. Len(log) : log[j].f # f]

Outcome(r) == [predTaken |-> r.predTaken, target |-> r.target, mispredict |-> r.mispredict]

\* The records of s other than the one numbered sn are as they are now.
SameOutcomes(s, sn) ==
    \A t \in Tids : \A i \in 1 .. Len(s.predHist[t]) :
       LET r == s.predHist[t][i]
       IN r.seqNum # sn =>
            \E old \in Records : old.seqNum = r.seqNum /\ Outcome(old) = Outcome(r)

Commit(s, sn, tid) == update([s EXCEPT !.calls = <<>>], sn, tid)

CommitCarriesLastCorrection ==
    fault = "none" =>
      /\ \A tid \in Tids, sn \in 0 .. MaxSeq :
           /\ SameOutcomes(update(St, sn, tid), 0)
           /\ SameOutcomes(squash(St, sn, tid), 0)
           /\ \A res \in Resolutions :
                \A s \in {squashMispredict(St, sn, res.target, res.taken, tid)} :
                  s.fault = "none" =>
                    /\ SameOutcomes(s, sn)
                    /\ \A i \in 1 .. Len(s.calls) :
                          s.calls[i].f = "A.update" => s.calls[i].flag
                    /\ Count(s.calls, "A.update") = IF HasRecord(tid, sn) THEN 1 ELSE 0
                    /\ HasRecord(tid, sn) =>
                         \A c \in {Commit(s, sn, tid)} :
                            /\ LastCall(c.calls, "A.update") =
                                 Call("A.update", tid, Front(s.predHist[tid]).bpHistory,
                                      FALSE, res.taken, instAddr(res.target))
                            /\ ras.present => LastCall(c.calls, "D.commit").flag
      /\ CanPredict =>
           \A a \in PredictArgs : \A out \in {DoPredict(a)} :
              out.s.fault = "none" =>
                /\ SameOutcomes(out.s, lastSn + 1)
                /\ \A c \in {Commit(out.s, lastSn + 1, a.tid)} :
                     /\ LastCall(c.calls, "A.update") =
                          Call("A.update", a.tid, Front(out.s.predHist[a.tid]).bpHistory,
                               FALSE, out.ret, instAddr(out.pc))
                     /\ ras.present => ~LastCall(c.calls, "D.commit").flag

\* A record that was corrected to taken is corrected again, to not taken,
\* and then retired behind an older record.
CorrectedTwiceThenRetired ==
    /\ fault = "none"
    /\ ras.present
    /\ \E tid \in Tids, res \in Resolutions :
         /\ Len(predHist[tid]) = 2
         /\ Front(predHist[tid]).mispredict
         /\ Front(predHist[tid]).predTaken
         /\ ~res.taken
         /\ \E s \in {squashMispredict(St, Front(predHist[tid]).seqNum,
                                       res.target, res.taken, tid)} :
              \E c \in {Commit(s, lastSn, tid)} :
                 /\ Count(c.calls, "A.update") = 2
                 /\ ~LastCall(c.calls, "A.update").taken
                 /\ LastCall(c.calls, "D.commit").flag

\* C17: in a mispredict squash with D present whose boundary record holds
\* the RAS history r on entry: if the branch was taken and r is null, D.pop
\* is called exactly if the instruction is a return and D.push exactly if it
\* is a call, the pop before the push; if it was not taken and r is not
\* null, D.squash(r) is called; otherwise D is not called. RASIncorrect is
\* counted exactly when r is not null; B.update is called and BTBUpdates
\* counted exactly when the branch was taken and the record was not an
\* indirect lookup, indirectMispredicted exactly when it was taken and was.
Boundary(tid, sn) == CHOOSE r \in Records : r.tid = tid /\ r.seqNum = sn

\* The calls of the mispredict squash that follow its flush step.
FixCalls(s, tid, sn) ==
    SubSeq(s.calls, Len(squash(countMiss(St, tid), sn, tid).calls) + 1, Len(s.calls))

Bit(b) == IF b THEN 1 ELSE 0

Positions(log, f) == {i \in 1 .. Len(log) : log[i].f = f}

RepairCases ==
    fault = "none" /\ ras.present =>
    \A tid \in Tids, sn \in 0 .. MaxSeq, res \in Resolutions :
      HasRecord(tid, sn) =>
      \A s \in {squashMispredict(St, sn, res.target, res.taken, tid)} :
        LET r == Boundary(tid, sn)
            fix == FixCalls(s, tid, sn)
            missed == res.taken /\ r.rasHistory = Null
            undo == ~res.taken /\ r.rasHistory # Null
        IN /\ s.fault = "none"
           /\ Count(fix, "D.pop") = Bit(missed /\ r.inst.isReturn)
           /\ Count(fix, "D.push") = Bit(missed /\ r.inst.isCall)
           /\ \A i \in Positions(fix, "D.pop"), j \in Positions(fix, "D.push") : i < j
           /\ Count(fix, "D.squash") = Bit(undo)
           /\ \A i \in Positions(fix, "D.squash") : fix[i].h = r.rasHistory
           /\ Count(fix, "D.commit") = 0
           /\ s.stats.RASIncorrect = stats.RASIncorrect + Bit(r.rasHistory # Null)
           /\ Count(fix, "B.update") = Bit(res.taken /\ ~r.wasIndirect)
           /\ s.stats.BTBUpdates = stats.BTBUpdates + Bit(res.taken /\ ~r.wasIndirect)
           /\ s.stats.indirectMispredicted =
                stats.indirectMispredicted + Bit(res.taken /\ r.wasIndirect)

\* One thread holds a return that is also a call with no RAS history, the
\* other a record with a RAS history: resolved taken the first is popped
\* and pushed, resolved not taken the second is squashed, and a taken record
\* with a RAS history leaves D alone.
RepairPushAndSquash ==
    /\ fault = "none"
    /\ ras.present
    /\ \E t1, t2 \in Tids, tk, nt \in Resolutions :
         /\ tk.taken /\ ~nt.taken
         /\ predHist[t1] # <<>> /\ predHist[t2] # <<>>
         /\ Front(predHist[t1]).inst.isCall
         /\ Front(predHist[t1]).inst.isReturn
         /\ Front(predHist[t1]).rasHistory = Null
         /\ Front(predHist[t2]).rasHistory # Null
         /\ \E s \in {squashMispredict(St, Front(predHist[t1]).seqNum,
                                       tk.target, tk.taken, t1)} :
              /\ Count(s.calls, "D.pop") = 1
              /\ Count(s.calls, "D.push") = 1
              /\ s.stats.BTBUpdates = stats.BTBUpdates + 1
         /\ \E s \in {squashMispredict(St, Front(predHist[t2]).seqNum,
                                       nt.target, nt.taken, t2)} :
              /\ Count(s.calls, "D.squash") = 1
              /\ s.stats.RASIncorrect = stats.RASIncorrect + 1
         /\ \E s \in {squashMispredict(St, Front(predHist[t2]).seqNum,
                                       tk.target, tk.taken, t2)} :
              ~Invokes(s, DNames)

\* C18: for an instruction that is a return and a call and is predicted
\* taken, predict calls D.pop and then D.push, both on the one rasHistory of
\* the record it creates, and consults neither the BTB nor the indirect
\* predictor; that history is released exactly once: by the D.commit of the
\* update that retires the record, or by the one D.squash of the flush that
\* removes it.
ReturnAndCall(a) ==
    /\ ras.present
    /\ a.inst.isReturn /\ a.inst.isCall
    /\ a.inst.isUncondCtrl \/ a.dirTaken

On(log, f, h) == Cardinality({i \in Positions(log, f) : log[i].h = h})

PopThenPushOneHistory ==
    CanPredict =>
    \A a \in PredictArgs : ReturnAndCall(a) =>
      \A out \in {DoPredict(a)} :
        LET h == Front(out.s.predHist[a.tid]).rasHistory
            now == [out.s EXCEPT !.calls = <<>>]
        IN /\ out.s.fault = "none"
           /\ out.ret
           /\ h # Null
           /\ Count(out.s.calls, "D.pop") = 1 /\ On(out.s.calls, "D.pop", h) = 1
           /\ Count(out.s.calls, "D.push") = 1 /\ On(out.s.calls, "D.push", h) = 1
           /\ \A i \in Positions(out.s.calls, "D.pop"),
                 j \in Positions(out.s.calls, "D.push") : i < j
           /\ ~Invokes(out.s, {"D.squash", "D.commit", "B.lookup", "C.lookup"})
           /\ h \in DOMAIN out.s.ras.live
           /\ \A s \in {update(now, lastSn + 1, a.tid)} :
                /\ On(s.calls, "D.commit", h) = 1 /\ On(s.calls, "D.squash", h) = 0
                /\ h \notin DOMAIN s.ras.live /\ ~s.ras.misuse
           /\ \A s \in {squash(now, lastSn, a.tid)} :
                /\ On(s.calls, "D.squash", h) = 1 /\ On(s.calls, "D.commit", h) = 0
                /\ h \notin DOMAIN s.ras.live /\ ~s.ras.misuse

\* A conditional return that is also a call is predicted taken behind an
\* older record that holds a RAS history of its own; the update that
\* retires both commits two histories.
PopThenPushBehindOlder ==
    /\ CanPredict
    /\ ras.present /\ iPred.present
    /\ \E a \in PredictArgs : \E out \in {DoPredict(a)} :
         /\ ReturnAndCall(a) /\ ~a.inst.isUncondCtrl
         /\ predHist[a.tid] # <<>>
         /\ Front(predHist[a.tid]).rasHistory # Null
         /\ Count(out.s.calls, "D.pop") = 1 /\ Count(out.s.calls, "D.push") = 1
         /\ Count(update([out.s EXCEPT !.calls = <<>>], lastSn + 1, a.tid).calls,
                  "D.commit") = 2

\* C19 as stated: for every record at most one of bpHistory,
\* indirectHistory and rasHistory is not null.
HistoryFields == {"bpHistory", "indirectHistory", "rasHistory"}

AtMostOneHistory ==
    \A r \in Records : Cardinality({f \in HistoryFields : r[f] # Null}) <= 1

\* C19: for every record each of A, C and D holds at most one history, the
\* one its own pointer names: a bpHistory that is not null is a live history
\* of A, an indirectHistory that is not null a live history of C, which is
\* present, a rasHistory that is not null a live history of D, which is
\* present, and the instruction is a call or a return. The three can be
\* held together.
OneHistoryEach ==
    fault = "none" =>
    \A r \in Records :
       /\ r.bpHistory # Null => r.bpHistory \in DOMAIN dir.live
       /\ r.indirectHistory # Null =>
            iPred.present /\ r.indirectHistory \in DOMAIN iPred.live
       /\ r.rasHistory # Null =>
            /\ ras.present /\ r.rasHistory \in DOMAIN ras.live
            /\ r.inst.isCall \/ r.inst.isReturn

\* A conditional call and a conditional return, each holding a history of
\* A, of C and of D.
ThreeHistoriesHeld ==
    /\ fault = "none"
    /\ \E r1, r2 \in Records :
         /\ ~r1.inst.isUncondCtrl /\ r1.inst.isCall /\ ~r1.inst.isReturn
         /\ ~r2.inst.isUncondCtrl /\ r2.inst.isReturn /\ ~r2.inst.isCall
         /\ \A f \in HistoryFields : r1[f] # Null /\ r2[f] # Null

\* C20: with D present every record of a conditional call or return holds
\* a RAS history exactly when its predTaken is true: after predict, also on
\* the BTB miss and the indirect miss that undo the push, and after every
\* mispredict squash, also of a record corrected before.
CondCallOrReturn(inst) == ~inst.isUncondCtrl /\ (inst.isCall \/ inst.isReturn)

RASHistoryIffTaken ==
    fault = "none" /\ ras.present =>
    \A r \in Records :
       CondCallOrReturn(r.inst) => (r.rasHistory # Null <=> r.predTaken)

\* A conditional call that was corrected to taken, and holds a RAS history
\* since, is corrected again to not taken and holds none; predicted taken
\* again on a BTB miss, a conditional call holds none either.
RASHistoryFollowsCorrections ==
    /\ fault = "none"
    /\ ras.present
    /\ \E tid \in Tids, res \in Resolutions :
         /\ predHist[tid] # <<>>
         /\ CondCallOrReturn(Front(predHist[tid]).inst)
         /\ Front(predHist[tid]).inst.isCall
         /\ Front(predHist[tid]).mispredict
         /\ Front(predHist[tid]).predTaken
         /\ Front(predHist[tid]).rasHistory # Null
         /\ ~res.taken
         /\ \E s \in {squashMispredict(St, Front(predHist[tid]).seqNum,
                                       res.target, res.taken, tid)} :
              /\ s.fault = "none"
              /\ Front(s.predHist[tid]).rasHistory = Null
              /\ ~Front(s.predHist[tid]).predTaken
    /\ CanPredict
    /\ \E a \in PredictArgs : \E out \in {DoPredict(a)} :
         /\ BTBMisses(a) /\ CondCallOrReturn(a.inst)
         /\ Front(out.s.predHist[a.tid]).rasHistory = Null

\* C21: after predict the record's pushedRAS is true exactly when the
\* instruction is a call that was predicted taken, its return address was
\* pushed on D, and the push was not undone in the same predict by the BTB
\* miss or the indirect miss.
PushStands(out) ==
    /\ Count(out.s.calls, "D.push") = 1
    /\ Count(out.s.calls, "D.squash") = 0

PushedRASRecordsPush ==
    CanPredict =>
    \A a \in PredictArgs : \A out \in {DoPredict(a)} :
        out.s.fault = "none" =>
           (Front(out.s.predHist[a.tid]).pushedRAS
              <=> /\ a.inst.isCall
                  /\ a.inst.isUncondCtrl \/ a.dirTaken
                  /\ PushStands(out))

====
